---- MODULE Spec2Model ----
(***************************************************************************)
(* GreatBuy support-assistant tool server (mcp_server_remote.py).          *)
(* Three tool handlers, search_wiki, read_order_status and                 *)
(* update_order_status, over a static wiki table, a static seller table    *)
(* and the persistent order store.                                         *)
(*                                                                         *)
(* A Python str is a tuple of one-character strings, so that lower(), the  *)
(* "in" substring test and f-string formatting are computed, not assumed.  *)
(***************************************************************************)
EXTENDS Integers, Sequences, FiniteSets, TLC

VARIABLES wiki, orders, call, result, updateLog, successCount, everFailed, calls

vars == <<wiki, orders, call, result, updateLog, successCount, everFailed, calls>>

\* Number of tool invocations explored in one behaviour.
MaxCalls == 3

-----------------------------------------------------------------------------
(* Python values *)

\* Python None; no str is equal to it.
None == <<"<None>">>

UpperAlphabet == <<"A","B","C","D","E","F","G","H","I","J","K","L","M","N","O","P","Q","R","S","T","U","V","W","X","Y","Z">>

LowerAlphabet == <<"a","b","c","d","e","f","g","h","i","j","k","l","m","n","o","p","q","r","s","t","u","v","w","x","y","z">>

\* str.lower() on one character.
LowerChar(c) ==
    IF \E i \in 1..26 : UpperAlphabet[i] = c
    THEN LowerAlphabet[CHOOSE i \in 1..26 : UpperAlphabet[i] = c]
    ELSE c

\* str.lower()
Lower(s) == [i \in 1..Len(s) |-> LowerChar(s[i])]

\* needle in hay, for two str
Contains(hay, needle) ==
    \E i \in 0..(Len(hay) - Len(needle)) :
        SubSeq(hay, i + 1, i + Len(needle)) = needle

\* x in list
InList(x, list) == \E i \in 1..Len(list) : list[i] = x

\* sep.join(list)
RECURSIVE Join(_, _)
Join(list, sep) ==
    IF Len(list) = 0 THEN <<>>
    ELSE IF Len(list) = 1 THEN list[1]
    ELSE list[1] \o sep \o Join(Tail(list), sep)

\* {value} inside an f-string: str(value)
Format(v) == IF v = None THEN <<"N","o","n","e">> ELSE v

\* truth value of a str or None
Truthy(v) == v # None /\ Len(v) > 0

\* dict.get(key, default)
DictGet(d, key, default) == IF key \in DOMAIN d THEN d[key] ELSE default

-----------------------------------------------------------------------------
(* Static tables and the order store *)

\* _MOCK_SELLERS_DB: seller id -> name
MOCK_SELLERS_DB == (<<"S","1">> :> [name |-> <<"A","c","m","e">>])

\* _MOCK_WIKI_DB as a list of (keyword, content) in insertion order.
WikiTables ==
    { << [keyword |-> <<"r","e","t","u","r","n"," ","p","o","l","i","c","y">>, content |-> <<"R","e","t","u","r","n","s"," ","w","i","t","h","i","n"," ","3","0"," ","d","a","y","s">>],
         [keyword |-> <<"r","e","t","u","r","n">>, content |-> <<"S","e","n","d"," ","i","t"," ","b","a","c","k">>],
         [keyword |-> <<"p","r","e","m","i","u","m">>, content |-> <<"P","r","e","m","i","u","m"," ","M","e","m","b","e","r","s"," ","s","h","i","p"," ","f","r","e","e">>] >>,
      << [keyword |-> <<"s","h","i","p","p","i","n","g"," ","f","e","e","s">>, content |-> <<"F","e","e","s"," ","a","p","p","l","y">>],
         [keyword |-> <<"p","r","e","m","i","u","m">>, content |-> <<"P","r","e","m","i","u","m"," ","M","e","m","b","e","r","s"," ","s","h","i","p"," ","f","r","e","e">>] >> }

\* Queries offered to search_wiki.
Queries == { <<"r","e","t","u","r","n">>, <<"P","r","e","m","i","u","m">>, <<"m","e","m","b","e","r","s">>, <<"x","y","z">> }

\* Order ids held by the store, and one the store does not hold.
StoredIds == { <<"A","1">>, <<"B","2">> }

UnknownId == <<"Z","9">>

OrderIds == StoredIds \cup { UnknownId }

\* Order records the store may be seeded with.
SeedRecords ==
    { [status |-> <<"P","r","o","c","e","s","s","i","n","g">>, items |-> << <<"p","e","n">>, <<"i","n","k">> >>, seller_id |-> <<"S","1">>,
       estimated_delivery_time |-> <<"M","o","n">>, special_instructions |-> <<"G","i","f","t">>],
      [status |-> <<"A","W","A","I","T","I","N","G"," ","S","H","I","P","M","E","N","T">>, items |-> << <<"p","e","n">> >>, seller_id |-> <<"S","9">>],
      [status |-> <<"p","r","e","p","a","r","i","n","g"," ","f","o","r"," ","s","h","i","p","m","e","n","t">>, estimated_delivery_time |-> <<"T","u","e">>],
      [status |-> <<"D","e","l","i","v","e","r","e","d">>, items |-> << <<"i","n","k">> >>, seller_id |-> <<"S","1">>,
       estimated_delivery_time |-> <<"M","o","n">>],
      [status |-> <<"C","a","n","c","e","l","l","e","d">>, items |-> << <<"p","e","n">> >>],
      [status |-> <<"C","A","N","C","E","L","L","E","D">>, seller_id |-> <<"S","1">>, estimated_delivery_time |-> <<"T","u","e">>,
       special_instructions |-> <<"G","i","f","t">>] }

\* Values offered as new_status.
NewStatuses == { <<"c","a","n","c","e","l","l","e","d">>, <<"C","A","N","C","E","L","L","E","D">>, <<"s","h","i","p","p","e","d">> }

\* What persistent_orders_db.get returns for an id it does not hold.
NoOrder == [absent |-> TRUE]

\* truth value of what persistent_orders_db.get returned
OrderFound(order) == order # NoOrder /\ DOMAIN order # {}

\* persistent_orders_db.get(order_id)
db_get(db, order_id) == IF order_id \in DOMAIN db THEN db[order_id] ELSE NoOrder

\* persistent_orders_db.update(order_id, fields): the given fields replace
\* those of the record when the store reports success (ok), and the record is
\* left as it was when it reports failure.
db_update(db, order_id, fields, ok) ==
    IF ok /\ order_id \in DOMAIN db
    THEN [db EXCEPT ![order_id] =
            [k \in DOMAIN @ \cup DOMAIN fields |->
                IF k \in DOMAIN fields THEN fields[k] ELSE @[k]]]
    ELSE db

-----------------------------------------------------------------------------
(* search_wiki *)

WikiNotFoundMsg(query) ==
    <<"I"," ","c","o","u","l","d","n","'","t"," ","f","i","n","d"," ","s","p","e","c","i","f","i","c"," ","i","n","f","o","r","m","a","t","i","o","n"," ","f","o","r"," ","'">> \o query
    \o <<"'"," ","i","n"," ","o","u","r"," ","G","r","e","a","t","B","u","y"," ","W","I","K","I","."," ","C","o","u","l","d"," ","y","o","u"," ","r","e","p","h","r","a","s","e"," ","o","r"," ","a","s","k"," ","a","b","o","u","t"," ","s","o","m","e","t","h","i","n","g"," ","e","l","s","e","?">>

\* The keyword loop: positions whose keyword is inside the query or the
\* query inside the keyword.
KeywordMatch(table, query_lower) ==
    { i \in 1..Len(table) :
        \/ Contains(query_lower, table[i].keyword)
        \/ Contains(table[i].keyword, query_lower) }

\* The content loop: positions whose lowercased content holds the query.
ContentMatch(table, query_lower) ==
    { i \in 1..Len(table) : Contains(Lower(table[i].content), query_lower) }

Min(S) == CHOOSE m \in S : \A n \in S : m <= n

SearchWiki(table, query) ==
    LET query_lower == Lower(query)
        direct == KeywordMatch(table, query_lower)
        partial == ContentMatch(table, query_lower)
    IN  IF direct # {} THEN table[Min(direct)].content
        ELSE IF partial # {} THEN table[Min(partial)].content
        ELSE WikiNotFoundMsg(query)

-----------------------------------------------------------------------------
(* read_order_status *)

ReadNotFoundMsg(order_id) ==
    <<"S","o","r","r","y",","," ","I"," ","c","o","u","l","d"," ","n","o","t"," ","f","i","n","d"," ","a"," ","G","r","e","a","t","B","u","y"," ","o","r","d","e","r"," ","w","i","t","h"," ","I","D"," ","'">> \o order_id \o <<"'",".">>

SellerName(order) ==
    IF /\ Truthy(DictGet(order, "seller_id", None))
       /\ order["seller_id"] \in DOMAIN MOCK_SELLERS_DB
    THEN MOCK_SELLERS_DB[order["seller_id"]].name
    ELSE <<"U","n","k","n","o","w","n"," ","S","e","l","l","e","r">>

ItemsStr(order) == Join(DictGet(order, "items", << <<"N","o"," ","i","t","e","m","s"," ","l","i","s","t","e","d">> >>), <<","," ">>)

StatusMessage(order_id, order) ==
    <<"O","r","d","e","r"," ","'">> \o order_id \o <<"'",":"," ","S","t","a","t","u","s"," ","i","s"," ","'">> \o order["status"] \o <<"'","."," ">>
    \o <<"I","t","e","m","s",":"," ">> \o ItemsStr(order) \o <<"."," ">>
    \o <<"S","e","l","l","e","r",":"," ">> \o SellerName(order) \o <<"."," ">>
    \o <<"E","s","t","i","m","a","t","e","d"," ","D","e","l","i","v","e","r","y",":"," ">>
    \o Format(DictGet(order, "estimated_delivery_time", <<"N","/","A">>)) \o <<"."," ">>
    \o (IF Truthy(DictGet(order, "special_instructions", None))
        THEN <<"S","p","e","c","i","a","l"," ","I","n","s","t","r","u","c","t","i","o","n","s",":"," ">> \o order["special_instructions"]
        ELSE <<>>)

ReadOrderStatus(db, order_id) ==
    LET order == db_get(db, order_id)
    IN  IF OrderFound(order) THEN StatusMessage(order_id, order)
        ELSE ReadNotFoundMsg(order_id)

-----------------------------------------------------------------------------
(* update_order_status *)

UpdateNotFoundMsg(order_id) ==
    <<"S","o","r","r","y",","," ","I"," ","c","o","u","l","d"," ","n","o","t"," ","f","i","n","d"," ","a"," ","G","r","e","a","t","B","u","y"," ","o","r","d","e","r"," ","w","i","t","h"," ","I","D"," ","'">> \o order_id \o <<"'"," ","t","o"," ","u","p","d","a","t","e",".">>

SuccessMsg(order_id) ==
    <<"O","r","d","e","r"," ","'">> \o order_id \o <<"'"," ","h","a","s"," ","b","e","e","n"," ","s","u","c","c","e","s","s","f","u","l","l","y"," ","c","a","n","c","e","l","l","e","d",".">>

FailedMsg(order_id) ==
    <<"F","a","i","l","e","d"," ","t","o"," ","u","p","d","a","t","e"," ","o","r","d","e","r"," ","'">> \o order_id \o <<"'"," ","i","n"," ","d","a","t","a","b","a","s","e",".">>

AlreadyMsg(order_id) ==
    <<"O","r","d","e","r"," ","'">> \o order_id \o <<"'"," ","i","s"," ","a","l","r","e","a","d","y"," ","c","a","n","c","e","l","l","e","d",".">>

\* Faulty variant: the message names the lowercased status.
RejectMsg_lowercased(order_id, order) ==
    <<"O","r","d","e","r"," ","'">> \o order_id \o <<"'"," ","c","a","n","n","o","t"," ","b","e"," ","c","a","n","c","e","l","l","e","d"," ","b","e","c","a","u","s","e"," ","i","t","s"," ","c","u","r","r","e","n","t"," ","s","t","a","t","u","s"," ","i","s"," ","'">>
    \o Lower(order["status"])
    \o <<"'","."," ","P","l","e","a","s","e"," ","r","e","f","e","r"," ","t","o"," ","o","u","r"," ","c","a","n","c","e","l","l","a","t","i","o","n"," ","p","o","l","i","c","y"," ","o","r"," ","c","o","n","t","a","c","t"," ","s","u","p","p","o","r","t"," ","f","o","r"," ","m","o","r","e"," ","h","e","l","p",".">>

RejectMsg(order_id, order) ==
    <<"O","r","d","e","r"," ","'">> \o order_id \o <<"'"," ","c","a","n","n","o","t"," ","b","e"," ","c","a","n","c","e","l","l","e","d"," ","b","e","c","a","u","s","e"," ","i","t","s"," ","c","u","r","r","e","n","t"," ","s","t","a","t","u","s"," ","i","s"," ","'">>
    \o order["status"]
    \o <<"'","."," ","P","l","e","a","s","e"," ","r","e","f","e","r"," ","t","o"," ","o","u","r"," ","c","a","n","c","e","l","l","a","t","i","o","n"," ","p","o","l","i","c","y"," ","o","r"," ","c","o","n","t","a","c","t"," ","s","u","p","p","o","r","t"," ","f","o","r"," ","m","o","r","e"," ","h","e","l","p",".">>

UnsupportedMsg(order_id, new_status, order) ==
    <<"T","h","i","s"," ","t","o","o","l"," ","i","s"," ","p","r","i","m","a","r","i","l","y"," ","f","o","r"," ","c","a","n","c","e","l","l","i","n","g"," ","o","r","d","e","r","s","."," ","T","o"," ","c","h","a","n","g","e"," ","s","t","a","t","u","s"," ","t","o"," ","'">> \o new_status
    \o <<"'"," ","i","s"," ","n","o","t"," ","s","u","p","p","o","r","t","e","d"," ","v","i","a"," ","t","h","i","s"," ","a","c","t","i","o","n"," ","f","o","r"," ","o","r","d","e","r"," ","'">> \o order_id
    \o <<"'","."," ","C","u","r","r","e","n","t"," ","s","t","a","t","u","s"," ","r","e","m","a","i","n","s"," ","'">> \o order["status"] \o <<"'",".">>

\* Faulty variant: a request is taken as a cancellation whatever new_status names.
IsCancelRequest_unchecked(new_status) == Len(new_status) > 0

\* normalized_new_status == "cancelled"
IsCancelRequest(new_status) == Lower(new_status) = <<"c","a","n","c","e","l","l","e","d">>

\* Faulty variant: an order already cancelled counts as cancellable.
cancellable_statuses_with_cancelled ==
    << <<"p","r","o","c","e","s","s","i","n","g">>, <<"a","w","a","i","t","i","n","g"," ","s","h","i","p","m","e","n","t">>, <<"p","r","e","p","a","r","i","n","g"," ","f","o","r"," ","s","h","i","p","m","e","n","t">>, <<"c","a","n","c","e","l","l","e","d">> >>

cancellable_statuses == << <<"p","r","o","c","e","s","s","i","n","g">>, <<"a","w","a","i","t","i","n","g"," ","s","h","i","p","m","e","n","t">>, <<"p","r","e","p","a","r","i","n","g"," ","f","o","r"," ","s","h","i","p","m","e","n","t">> >>

\* Faulty variant: the status is written in lower case.
CancelFields_lowercase == [status |-> <<"c","a","n","c","e","l","l","e","d">>, estimated_delivery_time |-> None]

\* Faulty variant: the special instructions are cleared with the delivery time.
CancelFields_clearing_instructions ==
    [status |-> <<"C","a","n","c","e","l","l","e","d">>, estimated_delivery_time |-> None,
     special_instructions |-> None]

\* The fields handed to persistent_orders_db.update.
CancelFields == [status |-> <<"C","a","n","c","e","l","l","e","d">>, estimated_delivery_time |-> None]

\* Faulty variant: the answer of the store is not looked at.
AfterUpdate_assuming_success(order_id, update_result) == SuccessMsg(order_id)

\* What the handler returns once the store has answered update_result.
AfterUpdate(order_id, update_result) ==
    IF update_result THEN SuccessMsg(order_id) ELSE FailedMsg(order_id)

\* The handler as a function of the store, its arguments and the answer the
\* store gives to an update: the store afterwards, the returned message and
\* the update calls made.
UpdateOrderStatus(db, order_id, new_status, storeOk) ==
    LET order == db_get(db, order_id)
    IN  IF ~OrderFound(order)
        THEN [db |-> db, result |-> UpdateNotFoundMsg(order_id), log |-> <<>>]
        ELSE IF IsCancelRequest(new_status)
        THEN LET current_status_lower == Lower(order["status"])
             IN  IF InList(current_status_lower, cancellable_statuses)
                 THEN [db |-> db_update(db, order_id, CancelFields, storeOk),
                       result |-> AfterUpdate(order_id, storeOk),
                       log |-> << [order_id |-> order_id, fields |-> CancelFields,
                                   ok |-> storeOk] >>]
                 ELSE IF current_status_lower = <<"c","a","n","c","e","l","l","e","d">>
                 THEN [db |-> db, result |-> AlreadyMsg(order_id), log |-> <<>>]
                 ELSE [db |-> db, result |-> RejectMsg(order_id, order), log |-> <<>>]
        ELSE [db |-> db, result |-> UnsupportedMsg(order_id, new_status, order),
              log |-> <<>>]

-----------------------------------------------------------------------------
(* The server: one action per tool *)

\* The last invocation: the tool, its arguments, and for update_order_status
\* the answer the store gives to an update made during it.
NoCall ==
    [op |-> "none", order_id |-> <<>>, new_status |-> <<>>, query |-> <<>>,
     storeOk |-> FALSE]

Init ==
    /\ wiki \in WikiTables
    /\ orders \in [StoredIds -> SeedRecords]
    /\ call = NoCall
    /\ result = <<>>
    /\ updateLog = <<>>
    /\ successCount = [id \in OrderIds |-> 0]
    /\ everFailed = {}
    /\ calls = 0

search_wiki ==
    /\ calls < MaxCalls
    /\ \E query \in Queries :
        /\ call' = [NoCall EXCEPT !.op = "search_wiki", !.query = query]
        /\ result' = SearchWiki(wiki, query)
    /\ updateLog' = <<>>
    /\ calls' = calls + 1
    /\ UNCHANGED <<wiki, orders, successCount, everFailed>>

read_order_status ==
    /\ calls < MaxCalls
    /\ \E order_id \in OrderIds :
        /\ call' = [NoCall EXCEPT !.op = "read_order_status", !.order_id = order_id]
        /\ result' = ReadOrderStatus(orders, order_id)
    /\ updateLog' = <<>>
    /\ calls' = calls + 1
    /\ UNCHANGED <<wiki, orders, successCount, everFailed>>

update_order_status ==
    /\ calls < MaxCalls
    /\ \E order_id \in OrderIds, new_status \in NewStatuses, storeOk \in BOOLEAN :
        LET out == UpdateOrderStatus(orders, order_id, new_status, storeOk)
        IN  /\ call' = [NoCall EXCEPT !.op = "update_order_status",
                                      !.order_id = order_id,
                                      !.new_status = new_status,
                                      !.storeOk = storeOk]
            /\ orders' = out.db
            /\ result' = out.result
            /\ updateLog' = out.log
            /\ successCount' =
                 IF out.result = SuccessMsg(order_id)
                 THEN [successCount EXCEPT ![order_id] = @ + 1]
                 ELSE successCount
            /\ everFailed' =
                 IF out.result = FailedMsg(order_id)
                 THEN everFailed \cup {order_id}
                 ELSE everFailed
    /\ calls' = calls + 1
    /\ UNCHANGED wiki

Next == search_wiki \/ read_order_status \/ update_order_status

Spec == Init /\ [][Next]_vars

-----------------------------------------------------------------------------
(* Properties *)

\* The statuses, lowercased, from which a cancellation is accepted.
CancellableVocabulary == { <<"p","r","o","c","e","s","s","i","n","g">>, <<"a","w","a","i","t","i","n","g"," ","s","h","i","p","m","e","n","t">>, <<"p","r","e","p","a","r","i","n","g"," ","f","o","r"," ","s","h","i","p","m","e","n","t">> }

IsCancellable(order) == Lower(order["status"]) \in CancellableVocabulary

IsCancelled(order) == Lower(order["status"]) = <<"c","a","n","c","e","l","l","e","d">>

\* The record has no estimated delivery time: the field is absent or None.
NoDeliveryTime(order) == DictGet(order, "estimated_delivery_time", None) = None

\* The step is update_order_status(id, new_status) with new_status "cancelled"
\* in any casing.
CancelStep(id) ==
    /\ call'.op = "update_order_status"
    /\ call'.order_id = id
    /\ Lower(call'.new_status) = <<"c","a","n","c","e","l","l","e","d">>

\* The last invocation was update_order_status(id, new_status) with new_status
\* "cancelled" in any casing.
WasCancel(id) ==
    /\ call.op = "update_order_status"
    /\ call.order_id = id
    /\ Lower(call.new_status) = <<"c","a","n","c","e","l","l","e","d">>

\* C1: cancelling a stored order whose status is cancellable, with a store
\* update that reports success, leaves status exactly "Cancelled" and the
\* estimated delivery time cleared and returns the 'successfully cancelled'
\* confirmation; every later read_order_status of that id reports status
\* 'Cancelled'.
C1_AcceptedCancellation ==
    [][\A id \in StoredIds :
        /\ (CancelStep(id) /\ IsCancellable(orders[id]) /\ call'.storeOk)
             => /\ orders'[id]["status"] = <<"C","a","n","c","e","l","l","e","d">>
                /\ NoDeliveryTime(orders'[id])
                /\ result' = <<"O","r","d","e","r"," ","'">> \o id \o <<"'"," ","h","a","s"," ","b","e","e","n"," ","s","u","c","c","e","s","s","f","u","l","l","y"," ","c","a","n","c","e","l","l","e","d",".">>
        /\ (successCount[id] >= 1 /\ call'.op = "read_order_status"
                /\ call'.order_id = id)
             => Contains(result', <<"S","t","a","t","u","s"," ","i","s"," ","'","C","a","n","c","e","l","l","e","d","'">>)]_vars

C1_Witness ==
    \E id \in StoredIds :
        /\ call.op = "read_order_status"
        /\ call.order_id = id
        /\ successCount[id] = 1
        /\ Contains(result, <<"S","t","a","t","u","s"," ","i","s"," ","'","C","a","n","c","e","l","l","e","d","'">>)

\* C2: once the status of an order is "cancelled" (in any casing), no
\* invocation of any tool changes any field of its record.
C2_CancelledIsAbsorbing ==
    [][\A id \in StoredIds :
        IsCancelled(orders[id]) => orders'[id] = orders[id]]_vars

C2_Witness ==
    \E id \in StoredIds :
        /\ WasCancel(id)
        /\ orders[id]["status"] = <<"C","A","N","C","E","L","L","E","D">>
        /\ calls >= 2

\* C3: cancelling an order that is already cancelled returns a message
\* containing 'already cancelled', makes no update call and leaves the store
\* as it was; so a second cancellation after a successful one changes nothing.
C3_CancellationIdempotent ==
    [][\A id \in StoredIds :
        /\ (CancelStep(id) /\ IsCancelled(orders[id]))
             => /\ Contains(result', <<"a","l","r","e","a","d","y"," ","c","a","n","c","e","l","l","e","d">>)
                /\ updateLog' = <<>>
                /\ orders' = orders
        /\ (CancelStep(id) /\ successCount[id] >= 1)
             => /\ orders' = orders
                /\ successCount' = successCount]_vars

C3_Witness ==
    \E id \in StoredIds :
        /\ WasCancel(id)
        /\ successCount[id] = 1
        /\ Contains(result, <<"a","l","r","e","a","d","y"," ","c","a","n","c","e","l","l","e","d">>)
        /\ updateLog = <<>>

\* C4: cancelling an order whose status is neither cancelled nor cancellable
\* returns a rejection that contains the status as stored, and the store is
\* unchanged.
C4_RejectionNamesStatus ==
    [][\A id \in StoredIds :
        (CancelStep(id) /\ ~IsCancelled(orders[id]) /\ ~IsCancellable(orders[id]))
          => /\ Contains(result', <<"c","a","n","n","o","t"," ","b","e"," ","c","a","n","c","e","l","l","e","d">>)
             /\ Contains(result', <<"'">> \o orders[id]["status"] \o <<"'">>)
             /\ orders' = orders
             /\ updateLog' = <<>>]_vars

C4_Witness ==
    \E id \in StoredIds :
        /\ WasCancel(id)
        /\ orders[id]["status"] = <<"D","e","l","i","v","e","r","e","d">>
        /\ Contains(result, <<"c","a","n","n","o","t"," ","b","e"," ","c","a","n","c","e","l","l","e","d">>)

\* The step is update_order_status(id, new_status) with a new_status other
\* than "cancelled" in any casing.
OtherStatusStep(id) ==
    /\ call'.op = "update_order_status"
    /\ call'.order_id = id
    /\ Lower(call'.new_status) # <<"c","a","n","c","e","l","l","e","d">>

CancellationOnly(msg) == Contains(msg, <<"T","h","i","s"," ","t","o","o","l"," ","i","s"," ","p","r","i","m","a","r","i","l","y"," ","f","o","r"," ","c","a","n","c","e","l","l","i","n","g"," ","o","r","d","e","r","s",".">>)

\* C5 as stated: update_order_status with a new_status other than "cancelled"
\* returns the cancellation-only message for every order id, and the store is
\* unchanged.
C5_AsStated ==
    [][\A id \in OrderIds :
        OtherStatusStep(id) => (CancellationOnly(result') /\ orders' = orders)]_vars

\* C5 amended: update_order_status on an order id held by the store, with a
\* new_status other than "cancelled", returns the cancellation-only message
\* whatever the status of the order, and the store is unchanged.
C5_CancellationOnly ==
    [][\A id \in StoredIds :
        OtherStatusStep(id)
          => /\ CancellationOnly(result')
             /\ orders' = orders
             /\ updateLog' = <<>>]_vars

C5_Witness ==
    \E id \in StoredIds :
        /\ call.op = "update_order_status"
        /\ call.order_id = id
        /\ call.new_status = <<"s","h","i","p","p","e","d">>
        /\ IsCancellable(orders[id])
        /\ CancellationOnly(result)

\* C6: when an accepted cancellation meets a store update that reports
\* failure, the handler returns a message that is not the success
\* confirmation and differs from the not-found, policy-rejection,
\* already-cancelled and cancellation-only messages, after exactly one update
\* attempt.
C6_StoreFailureSurfaced ==
    [][\A id \in StoredIds :
        (CancelStep(id) /\ IsCancellable(orders[id]) /\ ~call'.storeOk)
          => /\ ~Contains(result', <<"s","u","c","c","e","s","s","f","u","l","l","y"," ","c","a","n","c","e","l","l","e","d">>)
             /\ Contains(result', <<"F","a","i","l","e","d"," ","t","o"," ","u","p","d","a","t","e"," ","o","r","d","e","r">>)
             /\ \A other \in OrderIds :
                  /\ result' # UpdateNotFoundMsg(other)
                  /\ result' # AlreadyMsg(other)
                  /\ \A seed \in SeedRecords : result' # RejectMsg(other, seed)
                  /\ \A seed \in SeedRecords, s \in NewStatuses :
                       result' # UnsupportedMsg(other, s, seed)
             /\ ~Contains(result', <<"c","o","u","l","d"," ","n","o","t"," ","f","i","n","d">>)
             /\ ~Contains(result', <<"c","a","n","n","o","t"," ","b","e"," ","c","a","n","c","e","l","l","e","d">>)
             /\ ~Contains(result', <<"a","l","r","e","a","d","y"," ","c","a","n","c","e","l","l","e","d">>)
             /\ ~CancellationOnly(result')
             /\ Len(updateLog') = 1]_vars

C6_Witness ==
    \E id \in StoredIds :
        /\ WasCancel(id)
        /\ ~call.storeOk
        /\ IsCancellable(orders[id])
        /\ Len(updateLog) = 1
        /\ id \in everFailed

\* C7: a query equal to a stored keyword gets the article of that keyword,
\* for every wiki table and every position of the keyword in it.
C7_ExactKeyword ==
    call.op = "search_wiki"
      => \A i \in 1..Len(wiki) :
            wiki[i].keyword = call.query => result = wiki[i].content

\* C8: read_order_status on a stored order whose record has no estimated
\* delivery time (absent, or cleared by a cancellation) reports it as "N/A".
C8_DeliveryTimeDefault ==
    \A id \in StoredIds :
        (call.op = "read_order_status" /\ call.order_id = id
            /\ NoDeliveryTime(orders[id]))
          => Contains(result, <<"E","s","t","i","m","a","t","e","d"," ","D","e","l","i","v","e","r","y",":"," ","N","/","A","."," ">>)

\* C9: an accepted cancellation changes nothing but the status and the
\* estimated delivery time of the targeted order; its other fields and all
\* other orders are as before.
C9_CancellationFrame ==
    [][\A id \in StoredIds :
        (CancelStep(id) /\ IsCancellable(orders[id]))
          => /\ DOMAIN orders' = DOMAIN orders
             /\ \A other \in StoredIds \ {id} : orders'[other] = orders[other]
             /\ \A k \in {"items", "seller_id", "special_instructions"} :
                  /\ k \in DOMAIN orders'[id] <=> k \in DOMAIN orders[id]
                  /\ k \in DOMAIN orders[id] => orders'[id][k] = orders[id][k]
             /\ DOMAIN orders'[id] \subseteq
                  DOMAIN orders[id] \cup {"status", "estimated_delivery_time"}]_vars

C9_Witness ==
    \E id \in StoredIds :
        /\ WasCancel(id)
        /\ call.storeOk
        /\ Contains(result, <<"s","u","c","c","e","s","s","f","u","l","l","y"," ","c","a","n","c","e","l","l","e","d">>)
        /\ orders[id]["status"] = <<"C","a","n","c","e","l","l","e","d">>
        /\ "special_instructions" \in DOMAIN orders[id]

\* C10: for each order id at most one invocation ever returns the
\* 'successfully cancelled' confirmation, also after attempts that ended in a
\* store failure.
C10_AtMostOneSuccess == \A id \in OrderIds : successCount[id] <= 1

C10_Witness ==
    \E id \in StoredIds :
        /\ id \in everFailed
        /\ successCount[id] = 1
        /\ WasCancel(id)
        /\ ~Contains(result, <<"s","u","c","c","e","s","s","f","u","l","l","y"," ","c","a","n","c","e","l","l","e","d">>)

====
